---- MODULE Spec2Model ----
(***************************************************************************)
(* Expense Tracker Pro (src/tracker.py): the SQLite store (users,         *)
(* expenses), the ExpenseTracker engine and the Streamlit script main()   *)
(* that drives it, one script run per action.                             *)
(*                                                                         *)
(* Amounts are integer cents (the form steps by 0.01).  A calendar date   *)
(* is a record [y, m, d]; the store keeps it as the ISO text YYYY-MM-DD,  *)
(* modelled by the fixed-width number y*10000 + m*100 + d, whose order is *)
(* the order of the text; pandas reads it back as a timestamp at          *)
(* midnight.  The created_at and email columns are set once and read by   *)
(* no operation modelled here; they are left out.                         *)
(***************************************************************************)
EXTENDS Integers, Sequences, FiniteSets, TLC

VARIABLES
    users,      \* rows of table users: [id, username, password_hash]
    userSeq,    \* sqlite_sequence of users (AUTOINCREMENT)
    expenses,   \* rows of table expenses
    expSeq,     \* sqlite_sequence of expenses (AUTOINCREMENT)
    ss,         \* st.session_state of the browser session
    op,         \* the last script run: what was asked, what was shown
    accounts,   \* history: the successful create_user calls
    alive,      \* history: ids added and not yet deleted, with who added them
    auth,       \* history: the ids the last two successful authenticate_user
                \* calls of the session returned (last, and prev before it)
    conc        \* engine calls in progress in concurrent sessions: each
                \* session's call and position in it, the holder of SQLite's
                \* write lock, and the history of the calls that ended

vars == <<users, userSeq, expenses, expSeq, ss, op, accounts, alive, auth, conc>>

----------------------------------------------------------------------------
(* Bounds of the model *)

\* cap on the expenses AUTOINCREMENT counter (number of successful adds)
MaxExpenseId == 2

\* Python's None for an id, and an absent session_state key
None == 0

Date(y, m, d) == [y |-> y, m |-> m, d |-> d]

Usernames == {"alice", "Alice"}
Passwords == {"pw1", "pw2"}
\* a text input may be left empty
UsernameInputs == Usernames \cup {""}
PasswordInputs == Passwords \cup {""}

\* main, line 324
categories == {"Food", "Transport", "Entertainment", "Shopping", "Bills",
               "Healthcare", "Education", "Other"}

\* what the add-expense form may submit: (date, category, amount, description)
ExpenseInputs ==
    { [date |-> Date(2024, 1, 5),  category |-> "Food",      amount |-> 1250, description |-> "lunch"],
      [date |-> Date(2024, 2, 1),  category |-> "Transport", amount |-> 3000, description |-> ""],
      [date |-> Date(2024, 1, 5),  category |-> "Food",      amount |-> 0,    description |-> ""],
      [date |-> Date(2024, 2, 1),  category |-> "Bills",     amount |-> -500, description |-> "refund"] }

\* cap on the number of stored records the query engine is applied to
MaxRecords == 3

\* the records the query and aggregation functions are applied to
QueryInputs ==
    { [date |-> Date(2024, 1, 5),  category |-> "Food",      amount |-> 1250, description |-> "lunch"],
      [date |-> Date(2024, 1, 20), category |-> "Food",      amount |-> 750,  description |-> ""],
      [date |-> Date(2024, 2, 1),  category |-> "Transport", amount |-> 3000, description |-> ""],
      [date |-> Date(2024, 1, 20), category |-> "Bills",     amount |-> 750,  description |-> ""],
      [date |-> Date(2024, 2, 1),  category |-> "Other",     amount |-> 750,  description |-> "gift"] }

\* arguments of get_filtered_expenses: None is the empty tuple
FilterCategoryInputs == {<<>>, <<"All">>, <<"Food">>, <<"Transport">>, <<"Shopping">>}
FilterDaysInputs == {<<>>, <<0>>, <<7>>, <<30>>, <<90>>}

\* the month and year selections of the report pages
MonthInputs == {1, 2, 3}
YearInputs == {2023, 2024}

\* the numbers of rows asked of nlargest; the script asks for 5
TopInputs == {0, 1, 2, 5}

\* the sessions that call the engine concurrently, and the users they may
\* be logged in as
Sessions == {1, 2}
SessionUsers == {1, 2}

\* the calls one session makes
MaxCalls == 2

\* what the concurrent sessions add, and the ids they ask to delete
ConcAddInputs ==
    {[date |-> Date(2024, 1, 5), category |-> "Food", amount |-> 1250,
      description |-> "lunch"]}
ConcDeleteInputs == {1, 2}

\* the instants datetime.now() may return: a day and a time of day
\* (tick 0 is midnight exactly, tick 1 any later time of that day)
Nows == { [date |-> Date(2024, 2, 1), tick |-> 1],
          [date |-> Date(2024, 2, 4), tick |-> 0],
          [date |-> Date(2024, 2, 4), tick |-> 1] }

----------------------------------------------------------------------------
(* Dates: ISO text in the store, timestamps in a DataFrame *)

IsLeap(y) == (y % 4 = 0) /\ ((y % 100 # 0) \/ (y % 400 = 0))

DaysInMonth(y, m) ==
    CASE m \in {1, 3, 5, 7, 8, 10, 12} -> 31
      [] m \in {4, 6, 9, 11} -> 30
      [] OTHER -> IF IsLeap(y) THEN 29 ELSE 28

RECURSIVE DaysBeforeMonth(_, _)
DaysBeforeMonth(y, m) ==
    IF m <= 1 THEN 0 ELSE DaysBeforeMonth(y, m - 1) + DaysInMonth(y, m - 1)

\* proleptic Gregorian ordinal of a date
Ordinal(dt) ==
    LET p == dt.y - 1
    IN  p * 365 + (p \div 4) - (p \div 100) + (p \div 400)
        + DaysBeforeMonth(dt.y, dt.m) + dt.d

\* sqlite3's adapter for datetime.date: the text YYYY-MM-DD
IsoText(dt) == dt.y * 10000 + dt.m * 100 + dt.d

\* pd.to_datetime of the stored text: that day at 00:00
to_datetime(iso) ==
    [day |-> Ordinal(Date(iso \div 10000, (iso \div 100) % 100, iso % 100)),
     tick |-> 0]

\* datetime.now() - timedelta(days=days)
cutoff_date(now, days) == [day |-> Ordinal(now.date) - days, tick |-> now.tick]

\* timestamp a >= timestamp b
TsGeq(a, b) == (a.day > b.day) \/ (a.day = b.day /\ a.tick >= b.tick)

----------------------------------------------------------------------------
(* Database *)

\* hashlib.sha256(password).hexdigest(): a digest, never the plaintext;
\* distinct passwords of the model have distinct digests
hash_password(password) == <<"sha256", password>>

\* the UNIQUE constraint on users.username (BINARY collation: case-sensitive)
UsernameTaken(u, username) == \E r \in u : r.username = username

\* a create_user that overwrites the row of a taken username (INSERT OR REPLACE)
create_user_replace(u, seq, username, password) ==
    [ok |-> ~(\E r \in u : r.username = username),
     message |-> IF \E r \in u : r.username = username
                 THEN "Username already exists!" ELSE "User created successfully!",
     users |-> {r \in u : r.username # username}
               \cup {[id |-> seq + 1, username |-> username,
                      password_hash |-> <<"sha256", password>>]},
     seq |-> seq + 1]

\* INSERT INTO users ...; IntegrityError on a duplicate username, in which
\* case nothing is committed.  Returns the outcome and the new table.
create_user(u, seq, username, password) ==
    IF UsernameTaken(u, username)
    THEN [ok |-> FALSE, message |-> "Username already exists!", users |-> u, seq |-> seq]
    ELSE [ok |-> TRUE, message |-> "User created successfully!",
          users |-> u \cup {[id |-> seq + 1, username |-> username,
                             password_hash |-> hash_password(password)]},
          seq |-> seq + 1]

\* an authenticate_user whose username comparison ignores case (COLLATE NOCASE)
authenticate_user_nocase(u, username, password) ==
    LET lower(x) == IF x = "Alice" THEN "alice" ELSE x
        hit == {r \in u : lower(r.username) = lower(username)
                          /\ r.password_hash = <<"sha256", password>>}
    IN  IF hit = {} THEN <<>>
        ELSE LET r == CHOOSE r \in hit : TRUE IN <<r.id, r.username>>

\* SELECT id, username FROM users WHERE username = ? AND password_hash = ?
\* fetchone(): the tuple (id, username), or None (here the empty tuple)
authenticate_user(u, username, password) ==
    LET hit == {r \in u : r.username = username
                          /\ r.password_hash = hash_password(password)}
    IN  IF hit = {} THEN <<>>
        ELSE LET r == CHOOSE r \in hit : TRUE IN <<r.id, r.username>>

----------------------------------------------------------------------------
(* ExpenseTracker *)

SetMax(S) == CHOOSE x \in S : \A y \in S : y <= x

\* INTEGER PRIMARY KEY AUTOINCREMENT: one more than the largest id ever used
next_rowid(exp, seq) == SetMax({seq} \cup {e.id : e \in exp}) + 1

\* an add_expense that does not pass the description on
add_expense_nodescription(exp, seq, user_id, date, category, amount, description) ==
    exp \cup {[id |-> SetMax({seq} \cup {e.id : e \in exp}) + 1, user_id |-> user_id,
               date |-> date.y * 10000 + date.m * 100 + date.d, category |-> category,
               amount |-> amount, description |-> ""]}

\* INSERT INTO expenses (user_id, date, category, amount, description)
add_expense(exp, seq, user_id, date, category, amount, description) ==
    exp \cup {[id |-> next_rowid(exp, seq), user_id |-> user_id,
               date |-> IsoText(date), category |-> category,
               amount |-> amount, description |-> description]}

\* one row of the DataFrame: the selected columns, date parsed
DfRow(e) == [id |-> e.id, date |-> to_datetime(e.date), category |-> e.category,
             amount |-> e.amount, description |-> e.description]

\* a get_expenses without the WHERE user_id = ? clause
get_expenses_unscoped(exp, user_id) ==
    LET rows == exp
        n == Cardinality(rows)
        orders == {s \in [1..n -> rows] :
                     /\ \A i, j \in 1..n : i # j => s[i] # s[j]
                     /\ \A i \in 1..n : \A j \in 1..n :
                            i < j => s[i].date >= s[j].date}
    IN  {[i \in 1..n |-> DfRow(s[i])] : s \in orders}

\* a get_expenses with ORDER BY date ASC
get_expenses_ascending(exp, user_id) ==
    LET rows == {e \in exp : e.user_id = user_id}
        n == Cardinality(rows)
        orders == {s \in [1..n -> rows] :
                     /\ \A i, j \in 1..n : i # j => s[i] # s[j]
                     /\ \A i \in 1..n : \A j \in 1..n :
                            i < j => s[i].date <= s[j].date}
    IN  {[i \in 1..n |-> DfRow(s[i])] : s \in orders}

\* SELECT ... FROM expenses WHERE user_id = ? ORDER BY date DESC
\* SQL leaves the order of rows of equal date open: every DataFrame the
\* query may return.
get_expenses(exp, user_id) ==
    LET rows == {e \in exp : e.user_id = user_id}
        n == Cardinality(rows)
        orders == {s \in [1..n -> rows] :
                     /\ \A i, j \in 1..n : i # j => s[i] # s[j]
                     /\ \A i \in 1..n : \A j \in 1..n :
                            i < j => s[i].date >= s[j].date}
    IN  {[i \in 1..n |-> DfRow(s[i])] : s \in orders}

\* a delete_expense with WHERE id = ? alone
delete_expense_anyowner(exp, user_id, expense_id) ==
    LET hit == {e \in exp : e.id = expense_id}
    IN  [ret |-> Cardinality(hit) > 0, expenses |-> exp \ hit]

\* a delete_expense that reports affected >= 0
delete_expense_geq(exp, user_id, expense_id) ==
    LET hit == {e \in exp : e.id = expense_id /\ e.user_id = user_id}
    IN  [ret |-> Cardinality(hit) >= 0, expenses |-> exp \ hit]

\* DELETE FROM expenses WHERE id = ? AND user_id = ?; affected > 0
delete_expense(exp, user_id, expense_id) ==
    LET hit == {e \in exp : e.id = expense_id /\ e.user_id = user_id}
    IN  [ret |-> Cardinality(hit) > 0, expenses |-> exp \ hit]

\* the selections of the "Time Period" box: days_map, None as the empty tuple
days_map == {<<>>, <<7>>, <<30>>, <<90>>}

\* Python truthiness of an optional str / optional int argument
\* (None is the empty tuple, a supplied value v is <<v>>)
TruthyStr(a) == a # <<>> /\ a[1] # ""
TruthyInt(a) == a # <<>> /\ a[1] # 0

\* get_filtered_expenses; df is what self.get_expenses() returned
get_filtered_expenses(df, filter_category, days, now) ==
    IF df = <<>> THEN df
    ELSE LET byCat == IF TruthyStr(filter_category) /\ filter_category[1] # "All"
                      THEN SelectSeq(df, LAMBDA r : r.category = filter_category[1])
                      ELSE df
         IN  IF TruthyInt(days)
             THEN SelectSeq(byCat, LAMBDA r : TsGeq(r.date, cutoff_date(now, days[1])))
             ELSE byCat

RECURSIVE SumAmount(_)
\* df['amount'].sum()
SumAmount(df) == IF df = <<>> THEN 0 ELSE df[1].amount + SumAmount(Tail(df))

\* n / d rounded to the nearest integer, a half going to the even neighbour
\* (numpy's round), for n >= 0 and d > 0
RoundHalfEven(n, d) ==
    LET q == n \div d
        r == n % d
    IN  IF 2 * r < d THEN q
        ELSE IF 2 * r > d THEN q + 1
        ELSE IF q % 2 = 0 THEN q ELSE q + 1

\* a percentage rounded to whole percents (.round() for .round(2))
Percentage_round0(total, grand) == RoundHalfEven(total * 100, grand) * 100

\* (Total / Total.sum() * 100).round(2), in hundredths of a percent
Percentage(total, grand) == RoundHalfEven(total * 10000, grand)

\* get_category_summary; df is what self.get_expenses() returned.
\* One row per category: Total, Count, Percentage; sorted by Total
\* descending, rows of equal Total in any order; the empty DataFrame for
\* an empty df.  Every DataFrame the call may return.
get_category_summary(df) ==
    IF df = <<>> THEN {<<>>}
    ELSE LET cats == {df[i].category : i \in DOMAIN df}
             grand == SumAmount(df)
             row(c) == LET g == SelectSeq(df, LAMBDA r : r.category = c)
                       IN  [category |-> c, Total |-> SumAmount(g), Count |-> Len(g),
                            Percentage |-> Percentage(SumAmount(g), grand)]
             rows == {row(c) : c \in cats}
             n == Cardinality(rows)
         IN  {s \in [1..n -> rows] :
                /\ \A i, j \in 1..n : i # j => s[i] # s[j]
                /\ \A i \in 1..n : \A j \in 1..n :
                       i < j => s[i].Total >= s[j].Total}

\* dt.year of a timestamp: an estimate from the 400-year cycle of 146097
\* days, put right by at most one year
YearOf(ts) ==
    LET est == (ts.day * 400) \div 146097 + 1
    IN  IF ts.day < Ordinal(Date(est, 1, 1)) THEN est - 1
        ELSE IF ts.day > Ordinal(Date(est, 12, 31)) THEN est + 1
        ELSE est

\* the month of day number doy of year y: an estimate from months of 31
\* days, put right by at most one month
MonthOfYear(y, doy) ==
    LET est == (doy - 1) \div 31 + 1
    IN  IF est < 12 /\ doy > DaysBeforeMonth(y, est + 1) THEN est + 1 ELSE est

\* dt.month of a timestamp
MonthOf(ts) ==
    MonthOfYear(YearOf(ts), ts.day - Ordinal(Date(YearOf(ts), 1, 1)) + 1)

\* get_monthly_data; df is what self.get_expenses() returned
get_monthly_data(df, month, year) ==
    IF df = <<>> THEN <<>>
    ELSE SelectSeq(df, LAMBDA r : MonthOf(r.date) = month /\ YearOf(r.date) = year)

\* Python's a / b: the quotient num/den, or ZeroDivisionError raised
Divide(a, b) == [raised |-> b = 0, num |-> a, den |-> b]

\* the literal 0 as a quotient
Zero == [raised |-> FALSE, num |-> 0, den |-> 1]

\* an average that divides whatever the count is
average_transaction_unguarded(total_spent, num_transactions) ==
    Divide(total_spent, num_transactions)

\* total_spent / num_transactions if num_transactions > 0 else 0
\* (main, line 338; export_to_pdf, line 191)
average_transaction(total_spent, num_transactions) ==
    IF num_transactions > 0 THEN Divide(total_spent, num_transactions) ELSE Zero

\* ReportExporter.export_to_pdf: the summary paragraph and, for a non-empty
\* df, the table of date, category, amount and description (the first 30
\* characters; the descriptions of the model are shorter)
export_to_pdf(df, total_spent, num_transactions) ==
    [total |-> total_spent, count |-> num_transactions,
     average |-> average_transaction(total_spent, num_transactions),
     table |-> [i \in DOMAIN df |->
                  [date |-> df[i].date, category |-> df[i].category,
                   amount |-> df[i].amount, description |-> df[i].description]]]

\* a stable sort by amount, descending (numpy's mergesort on the negated
\* amounts): r goes behind every row whose amount is not smaller
InsertDesc(sorted, r) ==
    LET before == SelectSeq(sorted, LAMBDA x : x.amount >= r.amount)
        after == SelectSeq(sorted, LAMBDA x : x.amount < r.amount)
    IN  before \o <<r>> \o after

RECURSIVE StableSortDesc(_)
StableSortDesc(df) ==
    IF df = <<>> THEN <<>>
    ELSE InsertDesc(StableSortDesc(SubSeq(df, 1, Len(df) - 1)), df[Len(df)])

\* sort_values('amount', ascending=False) with the default kind
\* "quicksort", which is not stable: every descending arrangement of the
\* rows is a possible result
sort_values_desc(df) ==
    LET n == Len(df)
        perms == {f \in [1..n -> 1..n] : \A i, j \in 1..n : i # j => f[i] # f[j]}
    IN  {[i \in 1..n |-> df[f[i]]] : f \in
           {g \in perms : \A i \in 1..n, j \in 1..n :
               i < j => df[g[i]].amount >= df[g[j]].amount}}

\* DataFrame.nlargest(n, 'amount'), keep='first', as pandas computes it:
\* nothing for n <= 0; for n >= len(df) the "slow method", the whole frame
\* through sort_values; otherwise the rows not below the n-th largest
\* amount, sorted stably, cut to n.  The set of possible results.
nlargest(df, n) ==
    IF n <= 0 THEN {<<>>}
    ELSE IF n >= Len(df) THEN sort_values_desc(df)
    ELSE LET kth_val == StableSortDesc(df)[n].amount
             ns == SelectSeq(df, LAMBDA r : r.amount >= kth_val)
         IN  {SubSeq(StableSortDesc(ns), 1, n)}

\* df[['date', 'category', 'amount', 'description']]
TopColumns(df) ==
    [i \in DOMAIN df |->
       [date |-> df[i].date, category |-> df[i].category,
        amount |-> df[i].amount, description |-> df[i].description]]

\* dt.strftime('%Y-%m-%d'), as the number yyyymmdd
strftime(ts) ==
    LET y == YearOf(ts)
        m == MonthOf(ts)
    IN  y * 10000 + m * 100 + (ts.day - Ordinal(Date(y, m, 1)) + 1)

\* f"${x:.2f}" of an amount in cents: sign, dollars, cents
FormatAmount(x) ==
    LET a == IF x < 0 THEN -x ELSE x
    IN  [sign |-> IF x < 0 THEN "-" ELSE "", dollars |-> a \div 100,
         cents |-> a % 100]

----------------------------------------------------------------------------
(* The Streamlit script: one action is one run of main() *)

\* a gate that builds the tracker once and keeps it
Gate_keep(s) ==
    IF s.tracker = None
    THEN [s EXCEPT !.tracker = s.user_id, !.current_user_id = s.user_id]
    ELSE s

\* main, lines 304-306: (re)build the tracker when the user changed
Gate(s) ==
    IF s.tracker = None \/ s.current_user_id # s.user_id
    THEN [s EXCEPT !.tracker = s.user_id, !.current_user_id = s.user_id]
    ELSE s

\* an amount check that lets zero through
AmountValid_geq(amount) == amount >= 0

\* main, line 393: the amount check of the add-expense form
AmountValid(amount) == amount > 0

\* main, lines 405-427: the delete box is drawn only under a non-empty
\* filtered table, for some selection of the two filter boxes
ShowsDelete(exp, user_id) ==
    \E df \in get_expenses(exp, user_id) :
      \E fc \in {"All"} \cup categories, fd \in days_map, now \in Nows :
        get_filtered_expenses(df, IF fc # "All" THEN <<fc>> ELSE <<>>, fd, now) # <<>>

\* no engine call in progress, none made
Idle == [pc |-> "idle"]
NoCalls ==
    [user |-> [p \in Sessions |-> None], call |-> [p \in Sessions |-> Idle],
     calls |-> [p \in Sessions |-> 0], lock |-> None, done |-> {}]

Init ==
    /\ users = {}
    /\ userSeq = 0
    /\ expenses = {}
    /\ expSeq = 0
    /\ ss = [logged_in |-> FALSE, user_id |-> None, username |-> "",
             tracker |-> None, current_user_id |-> None]
    /\ op = [name |-> "init"]
    /\ accounts = {}
    /\ alive = {}
    /\ auth = [last |-> None, prev |-> None]
    /\ conc = NoCalls

\* login_page, lines 241-253 (and the rerun's pass through the gate)
LoginSubmit(username, password) ==
    /\ ~ss.logged_in
    /\ LET called == username # "" /\ password # ""
           user == IF called THEN authenticate_user(users, username, password) ELSE <<>>
       IN  /\ ss' = IF user # <<>>
                    THEN Gate([ss EXCEPT !.logged_in = TRUE, !.user_id = user[1],
                                         !.username = user[2]])
                    ELSE ss
           /\ op' = [name |-> "login", username |-> username, password |-> password,
                     called |-> called, user |-> user]
           /\ auth' = IF user # <<>> THEN [last |-> user[1], prev |-> auth.last]
                      ELSE auth
    /\ UNCHANGED <<users, userSeq, expenses, expSeq, accounts, alive, conc>>

\* login_page, lines 264-277
SignupSubmit(new_username, new_password, confirm_password) ==
    /\ ~ss.logged_in
    /\ IF new_username # "" /\ new_password # ""
       THEN IF new_password = confirm_password
            THEN LET r == create_user(users, userSeq, new_username, new_password)
                 IN  /\ users' = r.users
                     /\ userSeq' = r.seq
                     /\ op' = [name |-> "signup", username |-> new_username,
                               password |-> new_password, called |-> TRUE,
                               ok |-> r.ok, message |-> r.message]
                     /\ accounts' = IF r.ok
                                    THEN accounts \cup
                                         {[username |-> new_username,
                                           password |-> new_password,
                                           id |-> Cardinality(accounts) + 1]}
                                    ELSE accounts
            ELSE /\ op' = [name |-> "signup", username |-> new_username,
                           password |-> new_password, called |-> FALSE,
                           ok |-> FALSE, message |-> "Passwords don't match"]
                 /\ UNCHANGED <<users, userSeq, accounts>>
       ELSE /\ op' = [name |-> "signup", username |-> new_username,
                      password |-> new_password, called |-> FALSE,
                      ok |-> FALSE, message |-> "Please fill in all required fields"]
            /\ UNCHANGED <<users, userSeq, accounts>>
    /\ UNCHANGED <<expenses, expSeq, ss, alive, auth, conc>>

\* main, lines 313-319
Logout ==
    /\ ss.logged_in
    /\ ss' = [Gate(ss) EXCEPT !.logged_in = FALSE, !.user_id = None, !.username = ""]
    /\ op' = [name |-> "logout"]
    /\ UNCHANGED <<users, userSeq, expenses, expSeq, accounts, alive, auth, conc>>

\* any page drawn without a form submitted: the gate, then
\* tracker.get_expenses() (lines 329, 403, 464, 555, 598)
RenderPage ==
    /\ ss.logged_in
    /\ ss' = Gate(ss)
    /\ \E df \in get_expenses(expenses, ss'.tracker) :
          op' = [name |-> "list", user |-> ss.user_id, df |-> df,
                 tracker |-> ss'.tracker]
    /\ UNCHANGED <<users, userSeq, expenses, expSeq, accounts, alive, auth, conc>>

\* main, lines 376-398: the add-expense form submitted
AddExpenseSubmit(inp) ==
    /\ ss.logged_in
    /\ ss' = Gate(ss)
    /\ IF AmountValid(inp.amount)
       THEN /\ expSeq < MaxExpenseId
            /\ expenses' = add_expense(expenses, expSeq, ss'.tracker, inp.date,
                                       inp.category, inp.amount, inp.description)
            /\ expSeq' = next_rowid(expenses, expSeq)
            /\ op' = [name |-> "add", user |-> ss.user_id, input |-> inp,
                      result |-> "added", tracker |-> ss'.tracker]
            /\ alive' = alive \cup {[id |-> e.id, by |-> ss.user_id] :
                                      e \in expenses' \ expenses}
       ELSE /\ op' = [name |-> "add", user |-> ss.user_id, input |-> inp,
                      result |-> "Amount must be greater than 0"]
            /\ UNCHANGED <<expenses, expSeq, alive>>
    /\ UNCHANGED <<users, userSeq, accounts, auth, conc>>

\* main, lines 450-457: the delete button pressed with an id typed in
DeleteSubmit(delete_id) ==
    /\ ss.logged_in
    /\ ss' = Gate(ss)
    /\ ~ ~ShowsDelete(expenses, ss'.tracker)
    /\ LET r == delete_expense(expenses, ss'.tracker, delete_id)
       IN  /\ expenses' = r.expenses
           /\ op' = [name |-> "delete", user |-> ss.user_id,
                     expense_id |-> delete_id, ret |-> r.ret,
                     tracker |-> ss'.tracker]
           /\ alive' = IF r.ret THEN {a \in alive : a.id # delete_id} ELSE alive
    /\ UNCHANGED <<users, userSeq, expSeq, accounts, auth, conc>>

Next ==
    \/ \E u \in UsernameInputs, p \in PasswordInputs : LoginSubmit(u, p)
    \/ \E u \in UsernameInputs, p \in PasswordInputs, c \in PasswordInputs :
          SignupSubmit(u, p, c)
    \/ Logout
    \/ RenderPage
    \/ \E inp \in ExpenseInputs : AddExpenseSubmit(inp)
    \/ \E id \in 0..(MaxExpenseId + 1) : DeleteSubmit(id)

Spec == Init /\ [][Next]_vars

----------------------------------------------------------------------------
(* The query and aggregation engine applied to stored record sets *)

RECURSIVE StoreOf(_, _)
\* the expenses table after user_id added the inputs of `seq` in turn
StoreOf(seq, user_id) ==
    IF seq = <<>> THEN {}
    ELSE LET before == StoreOf(SubSeq(seq, 1, Len(seq) - 1), user_id)
             inp == seq[Len(seq)]
         IN  add_expense(before, Len(seq) - 1, user_id, inp.date, inp.category,
                         inp.amount, inp.description)

\* one user signed up and logged in, who added up to MaxRecords expenses
QueryInit ==
    /\ users = create_user({}, 0, "alice", "pw1").users
    /\ userSeq = 1
    /\ \E n \in 0..MaxRecords : \E seq \in [1..n -> QueryInputs] :
          /\ expenses = StoreOf(seq, 1)
          /\ expSeq = n
    /\ ss = [logged_in |-> TRUE, user_id |-> 1, username |-> "alice",
             tracker |-> 1, current_user_id |-> 1]
    /\ op = [name |-> "init"]
    /\ accounts = {[username |-> "alice", password |-> "pw1", id |-> 1]}
    /\ alive = {[id |-> e.id, by |-> 1] : e \in expenses}
    /\ auth = [last |-> 1, prev |-> None]
    /\ conc = NoCalls

\* tracker.get_filtered_expenses(filter_category, days), at the instant now.
\* The engine keeps nothing between calls (every query reads the store
\* anew), so a behaviour makes one call on the store it starts with.
FilterCall(filter_category, days, now) ==
    /\ op.name = "init"
    /\ \E df \in get_expenses(expenses, ss.tracker) :
          op' = [name |-> "filter", df |-> df, filter_category |-> filter_category,
                 days |-> days, now |-> now,
                 out |-> get_filtered_expenses(df, filter_category, days, now)]
    /\ UNCHANGED <<users, userSeq, expenses, expSeq, ss, accounts, alive, auth, conc>>

\* tracker.get_category_summary()
SummaryCall ==
    /\ op.name = "init"
    /\ \E df \in get_expenses(expenses, ss.tracker) :
          \E summary \in get_category_summary(df) :
             op' = [name |-> "summary", df |-> df, summary |-> summary]
    /\ UNCHANGED <<users, userSeq, expenses, expSeq, ss, accounts, alive, auth, conc>>

\* main, lines 326-349: the Dashboard page (its two charts are drawn from
\* the same frame and compute no average)
DashboardPage(now) ==
    /\ op.name = "init"
    /\ \E expenses_df \in get_expenses(expenses, ss.tracker) :
          op' = IF expenses_df = <<>>
                THEN [name |-> "dashboard", frame |-> expenses_df, shown |-> "info"]
                ELSE LET total_spent == SumAmount(expenses_df)
                         num_transactions == Len(expenses_df)
                         last_30_days == get_filtered_expenses(expenses_df, <<>>, <<30>>, now)
                     IN  [name |-> "dashboard", frame |-> expenses_df, shown |-> "stats",
                          total |-> total_spent, count |-> num_transactions,
                          average |-> average_transaction(total_spent, num_transactions),
                          last_30_days_total |-> IF last_30_days # <<>>
                                                 THEN SumAmount(last_30_days) ELSE 0]
    /\ UNCHANGED <<users, userSeq, expenses, expSeq, ss, accounts, alive, auth, conc>>

\* main, lines 517-550: "Generate Report" pressed on the Monthly Report page
MonthlyReport(selected_month, selected_year) ==
    /\ op.name = "init"
    /\ \E df \in get_expenses(expenses, ss.tracker) :
         \E monthly_data \in {get_monthly_data(df, selected_month, selected_year)} :
              IF monthly_data = <<>>
              THEN op' = [name |-> "monthly", frame |-> monthly_data, shown |-> "warning"]
              ELSE LET total_spent == SumAmount(monthly_data)
                       num_transactions == Len(monthly_data)
                   IN  \E category_summary \in get_category_summary(monthly_data) :
                       \E top \in nlargest(monthly_data, 5) :
                          LET top_expenses == TopColumns(top)
                          IN  op' = [name |-> "monthly", frame |-> monthly_data,
                                     shown |-> "stats",
                                     total |-> total_spent, count |-> num_transactions,
                                     average |-> Divide(total_spent, num_transactions),
                                     category_summary |-> category_summary,
                                     n |-> 5,
                                     top_expenses |-> top_expenses,
                                     top_display |->
                                        [i \in DOMAIN top_expenses |->
                                           [date |-> strftime(top_expenses[i].date),
                                            category |-> top_expenses[i].category,
                                            amount |-> FormatAmount(top_expenses[i].amount),
                                            description |-> top_expenses[i].description]]]
    /\ UNCHANGED <<users, userSeq, expenses, expSeq, ss, accounts, alive, auth, conc>>

\* main, lines 581-597: "Generate PDF" pressed on the Export Data page
GeneratePdf(month, year) ==
    /\ op.name = "init"
    /\ \E df \in get_expenses(expenses, ss.tracker) :
          /\ df # <<>>
          /\ \E monthly_data \in {get_monthly_data(df, month, year)} :
                 IF monthly_data # <<>>
                 THEN LET pdf == export_to_pdf(monthly_data, SumAmount(monthly_data),
                                               Len(monthly_data))
                      IN  op' = [name |-> "pdf", frame |-> monthly_data, shown |-> "stats",
                                 total |-> pdf.total, count |-> pdf.count,
                                 average |-> pdf.average]
                 ELSE op' = [name |-> "pdf", frame |-> monthly_data, shown |-> "warning"]
    /\ UNCHANGED <<users, userSeq, expenses, expSeq, ss, accounts, alive, auth, conc>>

\* ReportExporter.export_to_pdf applied to a month's records, whatever
\* their number, with their total and their count
ExportPdfCall(month, year) ==
    /\ op.name = "init"
    /\ \E df \in get_expenses(expenses, ss.tracker) :
         \E monthly_data \in {get_monthly_data(df, month, year)} :
          LET pdf == export_to_pdf(monthly_data, SumAmount(monthly_data),
                                   Len(monthly_data))
          IN  op' = [name |-> "export_to_pdf", frame |-> monthly_data, shown |-> "stats",
                     total |-> pdf.total, count |-> pdf.count, average |-> pdf.average]
    /\ UNCHANGED <<users, userSeq, expenses, expSeq, ss, accounts, alive, auth, conc>>

\* nlargest(n, 'amount') with the four columns of line 547, applied to the
\* user's records
NlargestCall(n) ==
    /\ op.name = "init"
    /\ \E df \in get_expenses(expenses, ss.tracker) :
          \E top \in nlargest(df, n) :
             op' = [name |-> "nlargest", frame |-> df, shown |-> "stats", n |-> n,
                    top_expenses |-> TopColumns(top)]
    /\ UNCHANGED <<users, userSeq, expenses, expSeq, ss, accounts, alive, auth, conc>>

QueryNext ==
    \/ \E fc \in FilterCategoryInputs, fd \in FilterDaysInputs, now \in Nows :
          FilterCall(fc, fd, now)
    \/ SummaryCall
    \/ \E now \in Nows : DashboardPage(now)
    \/ \E m \in MonthInputs, y \in YearInputs : MonthlyReport(m, y)
    \/ \E m \in MonthInputs, y \in YearInputs : GeneratePdf(m, y)
    \/ \E m \in MonthInputs, y \in YearInputs : ExportPdfCall(m, y)
    \/ \E n \in TopInputs : NlargestCall(n)

QuerySpec == QueryInit /\ [][QueryNext]_vars

----------------------------------------------------------------------------
(* Engine calls of concurrent sessions on the shared store.  Every call     *)
(* opens its own connection (get_connection), so the sessions share only   *)
(* the database file; SQLite lets one connection at a time hold the write  *)
(* lock, from the first write statement of a transaction to its commit.    *)

\* the write lock is free for session p to take
CanWrite_nolock(lock, p) == TRUE

\* cursor.execute of an INSERT or DELETE: SQLite's RESERVED lock is taken
\* by one connection at a time
CanWrite(lock, p) == lock = None \/ lock = p

\* two accounts, session 1 logged in as user 1 and session 2 as either, the
\* store empty or holding one expense of user 1
ConcInit ==
    /\ users = create_user(create_user({}, 0, "alice", "pw1").users, 1,
                           "Alice", "pw2").users
    /\ userSeq = 2
    /\ \E inp \in ConcAddInputs, n \in {0, 1} :
          /\ expenses = StoreOf([i \in 1..n |-> inp], 1)
          /\ expSeq = n
    /\ ss = [logged_in |-> FALSE, user_id |-> None, username |-> "",
             tracker |-> None, current_user_id |-> None]
    /\ op = [name |-> "init"]
    /\ accounts = {[username |-> "alice", password |-> "pw1", id |-> 1],
                   [username |-> "Alice", password |-> "pw2", id |-> 2]}
    /\ alive = {[id |-> e.id, by |-> 1] : e \in expenses}
    /\ auth = [last |-> None, prev |-> None]
    /\ \E u \in SessionUsers :
          conc = [NoCalls EXCEPT !.user = [p \in Sessions |-> IF p = 1 THEN 1 ELSE u]]

\* add_expense, lines 87-88: the call opens its connection
AddBegin(p, inp) ==
    /\ conc.call[p].pc = "idle"
    /\ conc.calls[p] < MaxCalls
    /\ conc' = [conc EXCEPT !.calls[p] = @ + 1,
                            !.call[p] = [pc |-> "connected", kind |-> "add",
                                         arg |-> inp, stored |-> FALSE]]
    /\ UNCHANGED <<users, userSeq, expenses, expSeq, ss, op, accounts, alive, auth>>

\* delete_expense, lines 144-145: the call opens its connection; `stored`
\* notes whether the row was there, owned by the caller, at that moment
DeleteBegin(p, expense_id) ==
    /\ conc.call[p].pc = "idle"
    /\ conc.calls[p] < MaxCalls
    /\ conc' = [conc EXCEPT !.calls[p] = @ + 1,
                            !.call[p] = [pc |-> "connected", kind |-> "delete",
                                         arg |-> expense_id,
                                         stored |-> \E e \in expenses :
                                                      /\ e.id = expense_id
                                                      /\ e.user_id = conc.user[p]]]
    /\ UNCHANGED <<users, userSeq, expenses, expSeq, ss, op, accounts, alive, auth>>

\* lines 89-92 and 146-147: cursor.execute takes the write lock and makes
\* the statement's change in the connection's own transaction
Execute(p) ==
    /\ conc.call[p].pc = "connected"
    /\ CanWrite(conc.lock, p)
    /\ LET c == conc.call[p]
           pending ==
              IF c.kind = "add"
              THEN [expenses |-> add_expense(expenses, expSeq, conc.user[p], c.arg.date,
                                             c.arg.category, c.arg.amount,
                                             c.arg.description),
                    seq |-> next_rowid(expenses, expSeq),
                    id |-> next_rowid(expenses, expSeq), ret |-> TRUE]
              ELSE LET r == delete_expense(expenses, conc.user[p], c.arg)
                   IN  [expenses |-> r.expenses, seq |-> expSeq, id |-> None,
                        ret |-> r.ret]
       IN  conc' = [conc EXCEPT !.lock = p,
                                !.call[p] = [c EXCEPT !.pc = "executed"] @@
                                            [pending |-> pending]]
    /\ UNCHANGED <<users, userSeq, expenses, expSeq, ss, op, accounts, alive, auth>>

\* cursor.execute while another connection holds the write lock past the
\* busy timeout: sqlite3.OperationalError, nothing written
Busy(p) ==
    /\ conc.call[p].pc = "connected"
    /\ ~CanWrite(conc.lock, p)
    /\ LET c == conc.call[p]
       IN  conc' = [conc EXCEPT !.call[p] = Idle,
                                !.done = @ \cup
                                   {[session |-> p, n |-> conc.calls[p], kind |-> c.kind,
                                     user |-> conc.user[p], arg |-> c.arg,
                                     stored |-> c.stored, raised |-> TRUE,
                                     ret |-> FALSE, id |-> None]}]
    /\ UNCHANGED <<users, userSeq, expenses, expSeq, ss, op, accounts, alive, auth>>

\* lines 93-95 and 148-151: conn.commit() publishes the change and frees
\* the lock; the call closes its connection and returns
Commit(p) ==
    /\ conc.call[p].pc = "executed"
    /\ LET c == conc.call[p]
       IN  /\ expenses' = c.pending.expenses
           /\ expSeq' = c.pending.seq
           /\ conc' = [conc EXCEPT !.call[p] = Idle,
                                   !.lock = IF @ = p THEN None ELSE @,
                                   !.done = @ \cup
                                      {[session |-> p, n |-> conc.calls[p],
                                        kind |-> c.kind, user |-> conc.user[p],
                                        arg |-> c.arg, stored |-> c.stored,
                                        raised |-> FALSE, ret |-> c.pending.ret,
                                        id |-> c.pending.id]}]
    /\ UNCHANGED <<users, userSeq, ss, op, accounts, alive, auth>>

ConcNext ==
    \/ \E p \in Sessions, inp \in ConcAddInputs : AddBegin(p, inp)
    \/ \E p \in Sessions, id \in ConcDeleteInputs : DeleteBegin(p, id)
    \/ \E p \in Sessions : Execute(p)
    \/ \E p \in Sessions : Busy(p)
    \/ \E p \in Sessions : Commit(p)

ConcSpec == ConcInit /\ [][ConcNext]_vars

----------------------------------------------------------------------------
(* Record Store and User Store: the contract checked on the script *)

Ids(df) == {df[i].id : i \in DOMAIN df}

\* the timestamp of a calendar date: that day at midnight
Midnight(dt) == [day |-> Ordinal(dt), tick |-> 0]

\* C1: whatever users signed up, added and deleted, the listing of user u
\* holds exactly the expenses u added and nobody deleted since: none of
\* another user's, none of u's missing, none twice.
C1_ListIsOwnRecords ==
    /\ \A u \in 1..userSeq :
         \A df \in get_expenses(expenses, u) :
            /\ Ids(df) = {a.id : a \in {b \in alive : b.by = u}}
            /\ \A i, j \in DOMAIN df : i # j => df[i].id # df[j].id
    /\ op.name = "list" =>
         Ids(op.df) = {a.id : a \in {b \in alive : b.by = op.user}}

C1_Witness ==
    /\ op.name = "list"
    /\ op.df # <<>>
    /\ \E a \in alive : a.by # op.user

\* C2: a delete of an expense that another user added returns false and
\* changes no table; the owner's listing still shows the expense.
C2_ForeignDeleteIsNoop ==
    [][ (op'.name = "delete"
         /\ \E a \in alive : a.id = op'.expense_id /\ a.by # op'.user)
        => /\ op'.ret = FALSE
           /\ expenses' = expenses
           /\ users' = users
           /\ \A a \in alive :
                a.id = op'.expense_id =>
                  \A df \in get_expenses(expenses', a.by) : a.id \in Ids(df)
      ]_vars

C2_Witness ==
    /\ op.name = "delete"
    /\ op.ret = FALSE
    /\ \E a \in alive : a.id = op.expense_id /\ a.by # op.user

\* C3: delete returns true exactly when a row with that id and that user_id
\* was stored; then that one row goes and nothing else changes; when it
\* returns false no table changes.  The user table never changes.
C3_DeleteFrame ==
    [][ op'.name = "delete"
        => LET hit == {e \in expenses : e.id = op'.expense_id
                                        /\ e.user_id = op'.user}
           IN  /\ op'.ret <=> (hit # {})
               /\ op'.ret => (Cardinality(hit) = 1 /\ expenses' = expenses \ hit)
               /\ ~op'.ret => expenses' = expenses
               /\ users' = users
      ]_vars

C3_Witness ==
    /\ op.name = "delete"
    /\ op.ret = TRUE
    /\ expenses # {}
    /\ \A e \in expenses : e.id # op.expense_id

C5_AddThenList ==
    [][ (op'.name = "add" /\ op'.result = "added")
        => /\ expenses \subseteq expenses'
           /\ \A df \in get_expenses(expenses', op'.user) :
                \E i \in DOMAIN df :
                   /\ df[i].date = Midnight(op'.input.date)
                   /\ df[i].category = op'.input.category
                   /\ df[i].amount = op'.input.amount
                   /\ df[i].description = op'.input.description
                   /\ df[i].id \notin {e.id : e \in expenses}
                   /\ Cardinality({e \in expenses' : e.id = df[i].id}) = 1
      ]_vars

C5_Witness ==
    /\ op.name = "add"
    /\ op.result = "added"
    /\ op.input.description # ""
    /\ Cardinality(expenses) >= 2

\* C6: a signup under a taken username ends in the duplicate-username
\* outcome and leaves the user table as it was: every account still logs in
\* with its own password to its own id, and the account of that name does
\* not log in with the password of the failed call (unless it is its own).
C6_DuplicateSignupNoMutation ==
    [][ /\ (op'.name = "signup" /\ op'.called
            /\ \E a \in accounts : a.username = op'.username)
           => (~op'.ok /\ op'.message = "Username already exists!")
        /\ (op'.name = "signup" /\ op'.message = "Username already exists!")
           => /\ users' = users
              /\ userSeq' = userSeq
              /\ \A a \in accounts :
                   /\ authenticate_user(users', a.username, a.password)
                        = <<a.id, a.username>>
                   /\ (a.username = op'.username /\ a.password # op'.password)
                      => authenticate_user(users', a.username, op'.password) = <<>>
      ]_vars

C6_Witness ==
    /\ op.name = "signup"
    /\ op.message = "Username already exists!"
    /\ \E a \in accounts : a.username = op.username /\ a.password # op.password

\* C7: authenticate returns user U's id exactly when an account with that
\* very username (case matters) was created with that very password; an
\* unknown username and a wrong password give the same no-match value.
C7_AuthenticateExact ==
    /\ \A u \in UsernameInputs, p \in PasswordInputs :
         LET m == {a \in accounts : a.username = u /\ a.password = p}
             got == authenticate_user(users, u, p)
         IN  IF m # {} THEN \E a \in m : got = <<a.id, a.username>>
                       ELSE got = <<>>
    /\ (op.name = "login" /\ op.called)
       => LET m == {a \in accounts : a.username = op.username
                                     /\ a.password = op.password}
          IN  IF m # {} THEN \E a \in m : op.user = <<a.id, a.username>>
                        ELSE op.user = <<>>

C7_Witness ==
    /\ op.name = "login"
    /\ op.called
    /\ op.user = <<>>
    /\ \E a \in accounts : a.username = op.username
    /\ \E a \in accounts : a.username # op.username /\ a.password = op.password

\* C8: a listing is in descending date order, and for a user id that owns
\* no record, or is no user's id, the listing is the empty sequence.
C8_ListDateDescending ==
    /\ \A u \in 0..(userSeq + 1) :
         /\ get_expenses(expenses, u) # {}
         /\ \A df \in get_expenses(expenses, u) :
              /\ \A i, j \in DOMAIN df : i < j => TsGeq(df[i].date, df[j].date)
              /\ (\A e \in expenses : e.user_id # u) => df = <<>>
    /\ op.name = "list" =>
         \A i, j \in DOMAIN op.df : i < j => TsGeq(op.df[i].date, op.df[j].date)

C8_Witness ==
    /\ op.name = "list"
    /\ Len(op.df) >= 2
    /\ op.df[1].date # op.df[2].date
    /\ \E u \in 1..userSeq : \A e \in expenses : e.user_id # u

----------------------------------------------------------------------------
(* Query Engine and Aggregation Engine *)

\* whether an optional argument was supplied (is not None)
Supplied(a) == a # <<>>

\* C9: filter returns exactly the records that meet every supplied
\* condition, in input order: the category when one is supplied and is not
\* "All", and date >= now - sinceDays when sinceDays is supplied, for every
\* supplied value d >= 0.
C9_FilterEverySuppliedCondition ==
    op.name = "filter" =>
       op.out = SelectSeq(op.df,
                  LAMBDA r :
                     /\ (Supplied(op.filter_category) /\ op.filter_category[1] # "All")
                        => r.category = op.filter_category[1]
                     /\ Supplied(op.days)
                        => TsGeq(r.date, cutoff_date(op.now, op.days[1])))

\* the sum of the Percentage column, in hundredths of a percent
RECURSIVE SumPercentage(_)
SumPercentage(summary) ==
    IF summary = <<>> THEN 0
    ELSE summary[1].Percentage + SumPercentage(Tail(summary))

Abs(x) == IF x < 0 THEN -x ELSE x

\* C10: for a non-empty record set each category's total is the sum of its
\* amounts, each percentage is 100 x total / grand total to the nearest
\* hundredth, and the percentages sum to 100.00 within 0.01 per category;
\* for an empty record set the summary is empty.
C10_PercentagesSumTo100 ==
    op.name = "summary" =>
       IF op.df = <<>> THEN op.summary = <<>>
       ELSE LET grand == SumAmount(op.df)
                k == Len(op.summary)
            IN  /\ k >= 1
                /\ {op.summary[i].category : i \in 1..k}
                     = {op.df[i].category : i \in DOMAIN op.df}
                /\ \A i \in 1..k :
                     LET row == op.summary[i]
                         mine == {j \in DOMAIN op.df : op.df[j].category = row.category}
                     IN  /\ row.Count = Cardinality(mine)
                         /\ row.Total = SumAmount(SelectSeq(op.df,
                                           LAMBDA r : r.category = row.category))
                         /\ 2 * Abs(row.Percentage * grand - row.Total * 10000) <= grand
                /\ Abs(SumPercentage(op.summary) - 10000) <= k

C10_Witness ==
    /\ op.name = "summary"
    /\ Len(op.summary) = 3
    /\ SumPercentage(op.summary) # 10000

\* the pages and calls that compute the overall statistics
StatsOps == {"dashboard", "monthly", "pdf", "export_to_pdf"}

\* C11: no place that computes the average (dashboard, monthly report, PDF
\* summary) divides by zero: wherever the statistics are computed, total is
\* the sum and count the number of the records, average = total / count
\* when count > 0 and average = 0 when count = 0; on the empty record set
\* the figures are total = 0, count = 0, average = 0 and nothing is raised
\* (the dashboard and report pages show a notice there and compute nothing).
C11_AverageNeverDividesByZero ==
    op.name \in StatsOps =>
       /\ (op.frame = <<>> /\ op.name # "export_to_pdf") => op.shown # "stats"
       /\ (op.frame # <<>> \/ op.name = "export_to_pdf") => op.shown = "stats"
       /\ op.shown = "stats" =>
            /\ ~op.average.raised
            /\ op.total = SumAmount(op.frame)
            /\ op.count = Len(op.frame)
            /\ op.count > 0 =>
                 op.average.num * op.count = op.total * op.average.den
            /\ op.count = 0 =>
                 (op.total = 0 /\ op.average.num = 0 /\ op.average.den # 0)

C11_Witness ==
    /\ op.name = "export_to_pdf"
    /\ expenses # {}
    /\ op.count = 0
    /\ op.total = 0
    /\ op.average = Zero

RECURSIVE IsSubSeq(_, _)
\* a can be obtained from b by leaving rows out
IsSubSeq(a, b) ==
    IF a = <<>> THEN TRUE
    ELSE IF b = <<>> THEN FALSE
    ELSE IF a[1] = b[1] THEN IsSubSeq(Tail(a), Tail(b))
    ELSE IsSubSeq(a, Tail(b))

CountWhere(df, Test(_)) == Len(SelectSeq(df, Test))

Min(a, b) == IF a < b THEN a ELSE b

EngineCall ==
    \/ op.name \in {"list", "delete"}
    \/ op.name = "add" /\ op.result = "added"

\* C14: in one browser session, whenever main is past the login gate and
\* uses the tracker, logged_in is true and the tracker's user_id is the id
\* the most recent successful authenticate returned; after a logout and a
\* login as a different user no engine call (list, add, delete) is made
\* with the previous user's id.
C14_TrackerIsLastAuthenticated ==
    EngineCall =>
       /\ ss.logged_in
       /\ op.tracker = auth.last
       /\ op.tracker # None
       /\ auth.prev # auth.last => op.tracker # auth.prev

C14_Witness ==
    /\ EngineCall
    /\ auth.prev # None
    /\ auth.prev # auth.last
    /\ op.tracker = auth.last

----------------------------------------------------------------------------
(* Concurrent sessions *)

\* the row an add call that ended wrote
AddedRow(d) ==
    [id |-> d.id, user_id |-> d.user, date |-> IsoText(d.arg.date),
     category |-> d.arg.category, amount |-> d.arg.amount,
     description |-> d.arg.description]

\* the calls that ended without raising
Returned == {d \in conc.done : ~d.raised}

\* every add that returned has its row in the store, unless a delete of
\* that row by its owner returned true
NoAddLost ==
    \A d \in Returned :
       d.kind = "add" =>
          /\ d.ret
          /\ \/ AddedRow(d) \in expenses
             \/ \E x \in Returned :
                  x.kind = "delete" /\ x.ret /\ x.arg = d.id /\ x.user = d.user

\* no two adds received the same id, and none the id of a row stored before
AddIdsDistinct ==
    \A d1, d2 \in Returned :
       (d1.kind = "add" /\ d2.kind = "add" /\ d1 # d2) => d1.id # d2.id

\* of two deletes of one (user, id) by different sessions that both began
\* while the row was stored, exactly one returned true; and a delete that
\* returned true left no such row
DeleteOnce ==
    /\ \A d1, d2 \in Returned :
          (/\ d1.kind = "delete" /\ d2.kind = "delete"
           /\ d1.session # d2.session
           /\ d1.arg = d2.arg /\ d1.user = d2.user
           /\ d1.stored /\ d2.stored)
          => (d1.ret # d2.ret)
    /\ \A d \in Returned :
          (d.kind = "delete" /\ d.ret) => ~\E e \in expenses : e.id = d.arg

\* a call that raised wrote nothing, a step writes at most one row, and
\* only a commit writes
SingleRowStep ==
    /\ Cardinality((expenses' \ expenses) \cup (expenses \ expenses')) <= 1
    /\ expenses' # expenses => \E p \in Sessions : conc.call[p].pc = "executed"
                                                   /\ conc'.call[p].pc = "idle"

\* C13: under any interleaving of add_expense and delete_expense calls of
\* concurrent sessions on the shared store, each call takes effect as one
\* atomic single-row step: no add is lost, two concurrent adds never get
\* the same id, and of two concurrent deletes of the same (user, id)
\* exactly one returns true.
C13_CallsAreAtomic ==
    [][SingleRowStep /\ NoAddLost' /\ AddIdsDistinct' /\ DeleteOnce']_vars

C13_Witness ==
    /\ \E d1, d2 \in Returned :
          /\ d1.kind = "delete" /\ d2.kind = "delete"
          /\ d1.session # d2.session
          /\ d1.arg = d2.arg /\ d1.user = d2.user
          /\ d1.stored /\ d2.stored
          /\ d1.ret /\ ~d2.ret
    /\ \E a1, a2 \in Returned :
          /\ a1.kind = "add" /\ a2.kind = "add"
          /\ a1.session # a2.session
          /\ a1.id # a2.id

====
